---- MODULE Spec2Model ----
(***************************************************************************)
(* A model of the Ceph cluster orchestration of                            *)
(* pkg/operator/ceph/cluster/cluster.go: the coalescing scheduler          *)
(* (createInstance and the three orchestration-status methods), one        *)
(* reconciliation pass (doOrchestration) and the upgrade gate              *)
(* (validateCephVersion, diffImageSpecAndClusterRunningVersion).           *)
(***************************************************************************)
EXTENDS Integers, Sequences, FiniteSets, TLC

\* ------------------------------------------------------------------ bounds
\* goroutines that call createInstance on the one cluster object
NumProcs == 2
\* createInstance calls made in all, by whichever goroutine
MaxRequests == 3
\* generations of the CephCluster spec the controller may install in c.Spec
MaxSpecGen == 1
\* registered child controllers (len(c.childControllers))
NumChildren == 1
\* distinct versions the running daemons report (len(Overall)) at most
MaxOverall == 2
\* nodes in a spec's storage node list at most
MaxNodes == 2

Procs == 1..NumProcs

\* --------------------------------------------------------------- identity
\* *cephconfig.ClusterInfo values: the nil pointer, a record whose FSID and
\* secrets are still empty, and the established identity of the cluster.
Infos == {"nil", "empty", "fsid"}

\* (*ClusterInfo).IsInitialized, as doOrchestration and validateCephVersion
\* use it: false for the nil pointer and for a record without its secrets.
IsInitialized(info) == info = "fsid"

\* mons.Start(c.Info, ...): the (clusterInfo, err) pairs it may return.  An
\* established identity is re-used; otherwise the mons produce one, or hand
\* back a record that is not complete yet.
monsStart(info) ==
    {[info |-> "nil", err |-> TRUE]} \cup
    {[info |-> i, err |-> FALSE] :
        i \in IF IsInitialized(info) THEN {info} ELSE {"empty", "fsid"}}

\* --------------------------------------------------------------- versions
\* cephver.CephVersion: major, minor and extra (patch) numbers.
CephVersion(major, minor, extra) ==
    [Major |-> major, Minor |-> minor, Extra |-> extra]

\* The versions the model draws from: one below the minimum, the minimum
\* itself, two that differ in the patch number only, one newer than every
\* supported release.
Versions == {CephVersion(12, 2, 9), CephVersion(13, 2, 4), CephVersion(14, 2, 1),
             CephVersion(14, 2, 2), CephVersion(15, 0, 0)}

\* cephver.Minimum
Minimum == CephVersion(13, 2, 4)

\* cephver.IsSuperior(a, b): a is strictly above b, comparing major, then
\* minor, then extra
IsSuperior(a, b) ==
    \/ a.Major > b.Major
    \/ a.Major = b.Major /\ a.Minor > b.Minor
    \/ a.Major = b.Major /\ a.Minor = b.Minor /\ a.Extra > b.Extra

\* cephver.IsInferior(a, b): a is strictly below b
IsInferior(a, b) ==
    \/ a.Major < b.Major
    \/ a.Major = b.Major /\ a.Minor < b.Minor
    \/ a.Major = b.Major /\ a.Minor = b.Minor /\ a.Extra < b.Extra

\* cephver.IsIdentical(a, b)
IsIdentical(a, b) ==
    a.Major = b.Major /\ a.Minor = b.Minor /\ a.Extra = b.Extra

\* (*CephVersion).IsAtLeast(other)
IsAtLeast(v, other) == ~IsInferior(v, other)

\* (*CephVersion).Supported(): a release on the supported list (mimic,
\* nautilus)
Supported(v) == v.Major \in {13, 14}

\* The text a daemon reports for a version, as a key of
\* CephDaemonsVersions.Overall, and a text that holds no version.
VersionString(v) == <<"ceph version", v.Major, v.Minor, v.Extra>>

Garbage == <<"unknown">>

VersionStrings == {VersionString(v) : v \in Versions} \cup {Garbage}

\* cephver.ExtractCephVersion(text): the version parsed out of the text, or
\* an error
ExtractCephVersion(text) ==
    IF Len(text) = 4 /\ text[1] = "ceph version"
    THEN [version |-> CephVersion(text[2], text[3], text[4]), err |-> FALSE]
    ELSE [version |-> CephVersion(0, 0, 0), err |-> TRUE]

\* CephDaemonsVersions.Overall values: the keys of the map (its counts are
\* never read)
Overalls == {o \in SUBSET VersionStrings : Cardinality(o) <= MaxOverall}

\* ------------------------------------------------------------------ state
VARIABLES
    orchestrationNeeded,   \* c.orchestrationNeeded
    orchestrationRunning,  \* c.orchestrationRunning
    orchMux,               \* c.orchMux: 0 when free, else the goroutine holding it
    clusterSpec,           \* c.Spec: the generation of the spec it points at
    Info,                  \* c.Info
    initCompleted,         \* c.initCompleted
    isUpgrade,             \* c.isUpgrade
    pc,                    \* each goroutine's position in createInstance
    err,                   \* createInstance's local err, "nil" or "error" (its
                           \* result once it has returned)
    spec,                  \* the DeepCopy a goroutine's pass was given
    clusterInfo,           \* doOrchestration's local clusterInfo
    child,                 \* index of the range loop over c.childControllers
    used,                  \* the spec generations the current pass has used
    requests,              \* createInstance calls made so far
    cephVersion,           \* createInstance's cephVersion parameter: the spec
                           \* generation whose image its caller detected it from
    passLog,               \* phases of a goroutine's current pass, in order
    lastSet,               \* the latest setOrchestrationNeeded: whether a pass
                           \* was running when it landed, how many landed with
                           \* it in the same pass (or the same gap between
                           \* passes), and the passes claimed since
    gate,                  \* the latest validateCephVersion call: inputs and outcome
    differ,                \* a clusterChanged call: its two specs and its result
    probe,                 \* a detectCephVersion call: what the version job
                           \* does and what the call returns
    platform,              \* what the platform answered to the creations of
                           \* the phase the running pass executed last
    ranPass                \* whether the createInstance call a goroutine is in
                           \* has entered its loop body

schedVars == <<orchestrationNeeded, orchestrationRunning, orchMux, lastSet>>
passVars == <<Info, initCompleted, spec, clusterInfo, child, used, passLog>>
vars == <<orchestrationNeeded, orchestrationRunning, orchMux, clusterSpec, Info,
          initCompleted, isUpgrade, pc, err, spec, clusterInfo, child, used,
          requests, cephVersion, passLog, lastSet, gate, differ, probe,
          platform, ranPass>>

\* positions between a successful checkSetOrchestrationStatus and the end of
\* the unsetOrchestrationStatus that follows it
PassPcs == {"copy", "cm", "mon", "ident", "mgr", "osd", "rbd", "init",
            "notify", "unset", "unsetCS"}
\* positions inside doOrchestration itself
OrchPcs == {"cm", "mon", "ident", "mgr", "osd", "rbd", "init", "notify"}

\* no validateCephVersion call yet
NoGate == [called |-> FALSE, version |-> Minimum, allowUnsupported |-> FALSE,
           loaded |-> "uncalled", fetched |-> "uncalled", overall |-> {},
           diff |-> "uncalled", healthy |-> TRUE, health |-> "unasked",
           err |-> "nil"]

\* no clusterChanged call
NoDiffer == [called |-> FALSE]

\* no detectCephVersion call
NoProbe == [called |-> FALSE]

\* the phase the pass executed last created nothing
NoAnswers == [phase |-> "none"]

\* the cluster object as newCluster returns it
InitCluster ==
    /\ orchestrationNeeded = FALSE
    /\ orchestrationRunning = FALSE
    /\ orchMux = 0
    /\ clusterSpec = 0
    /\ Info = "nil"
    /\ initCompleted = FALSE
    /\ isUpgrade = FALSE
    /\ pc = [p \in Procs |-> "idle"]
    /\ err = [p \in Procs |-> "nil"]
    /\ spec = [p \in Procs |-> 0]
    /\ clusterInfo = [p \in Procs |-> "nil"]
    /\ child = [p \in Procs |-> 0]
    /\ used = [p \in Procs |-> {}]
    /\ requests = 0
    /\ cephVersion = [p \in Procs |-> 0]
    /\ passLog = [p \in Procs |-> <<>>]
    /\ lastSet = [running |-> FALSE, n |-> 0, claims |-> 0]
    /\ gate = NoGate
    /\ platform = NoAnswers
    /\ ranPass = [p \in Procs |-> FALSE]

Init == InitCluster /\ differ = NoDiffer /\ probe = NoProbe

\* ------------------------------------------------------- the scheduler
\* createInstance, lines 194-196: a goroutine that is not inside
\* createInstance calls it, with the version its caller detected from the
\* image of the spec now in c.Spec; err is nil and setOrchestrationNeeded
\* takes the lock.
createInstance(p) ==
    /\ pc[p] = "idle"
    /\ requests < MaxRequests
    /\ orchMux = 0
    /\ orchMux' = p
    /\ requests' = requests + 1
    /\ cephVersion' = [cephVersion EXCEPT ![p] = clusterSpec]
    /\ pc' = [pc EXCEPT ![p] = "setCS"]
    /\ err' = [err EXCEPT ![p] = "nil"]
    /\ UNCHANGED <<orchestrationNeeded, orchestrationRunning, lastSet, passVars, clusterSpec, isUpgrade, gate, differ, probe, platform, ranPass>>

\* a Lock that does not wait for the mutex to be free
LockWithoutWaiting(p, from, to) ==
    /\ pc[p] = from
    /\ orchMux' = p
    /\ pc' = [pc EXCEPT ![p] = to]
    /\ UNCHANGED <<orchestrationNeeded, orchestrationRunning, lastSet, passVars, clusterSpec, isUpgrade, err, requests, cephVersion, gate, differ, probe, platform, ranPass>>

\* c.orchMux.Lock() at the head of each of the three status methods.
Lock(p, from, to) ==
    /\ pc[p] = from
    /\ orchMux = 0
    /\ orchMux' = p
    /\ pc' = [pc EXCEPT ![p] = to]
    /\ UNCHANGED <<orchestrationNeeded, orchestrationRunning, lastSet, passVars, clusterSpec, isUpgrade, err, requests, cephVersion, gate, differ, probe, platform, ranPass>>

checkLock(p) == Lock(p, "check", "checkCS")

unsetLock(p) == Lock(p, "unset", "unsetCS")

\* the flags as setOrchestrationNeeded leaves them
setFlags(needed, running) == [needed |-> TRUE, running |-> running]

\* setOrchestrationNeeded, the body under the lock and the Unlock.
setOrchestrationNeeded(p) ==
    /\ pc[p] = "setCS"
    /\ orchMux = p
    /\ LET f == setFlags(orchestrationNeeded, orchestrationRunning) IN
        /\ orchestrationNeeded' = f.needed
        /\ orchestrationRunning' = f.running
    /\ orchMux' = 0
    /\ pc' = [pc EXCEPT ![p] = "check"]
    /\ lastSet' = [running |-> orchestrationRunning,
                   n |-> IF lastSet.claims = 0
                            /\ lastSet.running = orchestrationRunning
                         THEN lastSet.n + 1 ELSE 1,
                   claims |-> 0]
    /\ UNCHANGED <<passVars, clusterSpec, isUpgrade, err, requests, cephVersion, gate, differ, probe, platform, ranPass>>

\* a checkSetOrchestrationStatus that admits a caller whenever a request is
\* pending, whether or not a pass is running
checkSetIgnoringRunning(needed, running) ==
    IF needed = TRUE
    THEN [ok |-> TRUE, needed |-> FALSE, running |-> TRUE]
    ELSE [ok |-> FALSE, needed |-> needed, running |-> running]

\* a checkSetOrchestrationStatus that consumes the request also when it
\* refuses the caller
checkSetConsumesRequest(needed, running) ==
    IF needed = TRUE /\ running = FALSE
    THEN [ok |-> TRUE, needed |-> FALSE, running |-> TRUE]
    ELSE [ok |-> FALSE, needed |-> FALSE, running |-> running]

\* checkSetOrchestrationStatus's decision and the flags it leaves
checkSetFlags(needed, running) ==
    IF needed = TRUE /\ running = FALSE
    THEN [ok |-> TRUE, needed |-> FALSE, running |-> TRUE]
    ELSE [ok |-> FALSE, needed |-> needed, running |-> running]

\* checkSetOrchestrationStatus, the body under the lock and the deferred
\* Unlock; on true the loop body starts, on false createInstance returns err.
checkSetOrchestrationStatus(p) ==
    /\ pc[p] = "checkCS"
    /\ orchMux = p
    /\ LET f == checkSetFlags(orchestrationNeeded, orchestrationRunning) IN
        /\ orchestrationNeeded' = f.needed
        /\ orchestrationRunning' = f.running
        /\ pc' = [pc EXCEPT ![p] = IF f.ok THEN "copy" ELSE "idle"]
        /\ lastSet' = [lastSet EXCEPT !.claims = IF f.ok THEN @ + 1 ELSE @]
        /\ cephVersion' = [cephVersion EXCEPT ![p] = IF f.ok THEN @ ELSE 0]
        /\ ranPass' = [ranPass EXCEPT ![p] = f.ok]
    /\ orchMux' = 0
    /\ UNCHANGED <<passVars, clusterSpec, isUpgrade, err, requests, gate,
                   differ, probe, platform>>

\* an unsetOrchestrationStatus that resets both flags
unsetBothFlags(needed, running) == [needed |-> FALSE, running |-> FALSE]

\* the flags as unsetOrchestrationStatus leaves them
unsetFlags(needed, running) == [needed |-> needed, running |-> FALSE]

\* a createInstance that runs its loop body once, as the body of an if, and
\* returns after unsetOrchestrationStatus
unsetAndReturn(p) ==
    /\ pc[p] = "unsetCS"
    /\ orchMux = p
    /\ LET f == unsetFlags(orchestrationNeeded, orchestrationRunning) IN
        /\ orchestrationNeeded' = f.needed
        /\ orchestrationRunning' = f.running
    /\ orchMux' = 0
    /\ pc' = [pc EXCEPT ![p] = "idle"]
    /\ passLog' = [passLog EXCEPT ![p] = <<>>]
    /\ spec' = [spec EXCEPT ![p] = 0]
    /\ clusterInfo' = [clusterInfo EXCEPT ![p] = "nil"]
    /\ child' = [child EXCEPT ![p] = 0]
    /\ used' = [used EXCEPT ![p] = {}]
    /\ platform' = NoAnswers
    /\ ranPass' = [ranPass EXCEPT ![p] = FALSE]
    /\ UNCHANGED <<lastSet, Info, initCompleted, clusterSpec,
                   isUpgrade, err, requests, cephVersion, gate, differ, probe>>

\* unsetOrchestrationStatus, the body under the lock and the deferred Unlock;
\* the for loop then evaluates its condition again.
unsetOrchestrationStatus(p) ==
    /\ pc[p] = "unsetCS"
    /\ orchMux = p
    /\ LET f == unsetFlags(orchestrationNeeded, orchestrationRunning) IN
        /\ orchestrationNeeded' = f.needed
        /\ orchestrationRunning' = f.running
    /\ orchMux' = 0
    /\ pc' = [pc EXCEPT ![p] = "check"]
    /\ passLog' = [passLog EXCEPT ![p] = <<>>]
    /\ spec' = [spec EXCEPT ![p] = 0]
    /\ clusterInfo' = [clusterInfo EXCEPT ![p] = "nil"]
    /\ child' = [child EXCEPT ![p] = 0]
    /\ used' = [used EXCEPT ![p] = {}]
    /\ platform' = NoAnswers
    /\ UNCHANGED <<lastSet, Info, initCompleted, clusterSpec,
                   isUpgrade, err, requests, cephVersion, gate, differ, probe, ranPass>>

\* The controller installs a newer spec in c.Spec (the pointer newCluster
\* takes at line 82 is shared with it), at any moment.
SpecUpdate ==
    /\ clusterSpec < MaxSpecGen
    /\ clusterSpec' = clusterSpec + 1
    /\ UNCHANGED <<schedVars, passVars, isUpgrade, pc, err, requests, cephVersion, gate, differ, probe, platform, ranPass>>

\* ------------------------------------------------ one reconciliation pass
\* a doOrchestration that goes on to the next phase after a failed one
EndPhaseWithoutReturn(p, phase, ok, reads, next) ==
    /\ passLog' = [passLog EXCEPT ![p] = Append(@, [phase |-> phase, ok |-> ok])]
    /\ used' = [used EXCEPT ![p] = @ \cup reads]
    /\ pc' = [pc EXCEPT ![p] = next]
    /\ err' = [err EXCEPT ![p] = IF ok THEN @ ELSE "error"]

\* a createInstance whose loop goes straight back to its condition when
\* doOrchestration fails, without unsetOrchestrationStatus
EndPhaseSkippingUnset(p, phase, ok, reads, next) ==
    /\ passLog' = [passLog EXCEPT ![p] = Append(@, [phase |-> phase, ok |-> ok])]
    /\ used' = [used EXCEPT ![p] = @ \cup reads]
    /\ pc' = [pc EXCEPT ![p] = IF ok THEN next ELSE "check"]
    /\ err' = [err EXCEPT ![p] = IF ok THEN @ ELSE "error"]

\* What a phase leaves behind: an entry of the pass's log, the next position
\* and, when it fails, doOrchestration's error as createInstance's err.
EndPhase(p, phase, ok, reads, next) ==
    /\ passLog' = [passLog EXCEPT ![p] = Append(@, [phase |-> phase, ok |-> ok])]
    /\ used' = [used EXCEPT ![p] = @ \cup reads]
    /\ pc' = [pc EXCEPT ![p] = IF ok THEN next ELSE "unset"]
    /\ err' = [err EXCEPT ![p] = IF ok THEN @ ELSE "error"]

\* createInstance, line 206: spec := c.Spec.DeepCopy()
DeepCopy(p) ==
    /\ pc[p] = "copy"
    /\ spec' = [spec EXCEPT ![p] = clusterSpec]
    /\ pc' = [pc EXCEPT ![p] = "cm"]
    /\ UNCHANGED <<schedVars, Info, initCompleted, clusterInfo, child, used,
                   passLog, clusterSpec, isUpgrade, err, requests, cephVersion, gate, differ, probe, platform, ranPass>>

\* What the platform answers to a Create: the object was created, an
\* already-exists error, or another error
CreateAnswers == {"created", "exists", "error"}

\* doOrchestration, lines 219-232: create the config override configmap; an
\* already-exists answer is not an error.
createOverrideConfigMap(p) ==
    /\ pc[p] = "cm"
    /\ \E answer \in CreateAnswers :
          /\ EndPhase(p, "cm", answer # "error", {}, "mon")
          /\ platform' = [phase |-> "cm", configMap |-> answer]
    /\ UNCHANGED <<schedVars, Info, initCompleted, spec, clusterInfo, child,
                   clusterSpec, isUpgrade, requests, cephVersion, gate, differ, probe, ranPass>>

\* the spec doOrchestration hands to c.mons.Start: *c.Spec
monSpec(p) == clusterSpec

\* a doOrchestration that stores what c.mons.Start returned in c.Info before
\* it looks at the error
startMonsAssigningBeforeCheck(p) ==
    /\ pc[p] = "mon"
    /\ \E r \in monsStart(Info) :
          /\ EndPhase(p, "mon", ~r.err, {monSpec(p)}, "ident")
          /\ clusterInfo' = [clusterInfo EXCEPT ![p] = r.info]
          /\ Info' = r.info
    /\ platform' = NoAnswers
    /\ UNCHANGED <<schedVars, initCompleted, spec, child, clusterSpec,
                   isUpgrade, requests, cephVersion, gate, differ, probe, ranPass>>

\* doOrchestration, lines 236-240: start the mons with *c.Spec and keep the
\* clusterInfo they return in c.Info.
startMons(p) ==
    /\ pc[p] = "mon"
    /\ \E r \in monsStart(Info) :
          /\ EndPhase(p, "mon", ~r.err, {monSpec(p)}, "ident")
          /\ clusterInfo' = [clusterInfo EXCEPT ![p] = r.info]
          /\ Info' = IF r.err THEN Info ELSE r.info
    /\ platform' = NoAnswers
    /\ UNCHANGED <<schedVars, initCompleted, spec, child, clusterSpec,
                   isUpgrade, requests, cephVersion, gate, differ, probe, ranPass>>

\* a doOrchestration that goes on to the mgrs without looking at the
\* identity the mons returned
checkIdentitySkipped(p) ==
    /\ pc[p] = "ident"
    /\ EndPhase(p, "ident", TRUE, {}, "mgr")
    /\ UNCHANGED <<schedVars, Info, initCompleted, spec, clusterInfo, child,
                   clusterSpec, isUpgrade, requests, cephVersion, gate,
                   differ, probe, platform, ranPass>>

\* doOrchestration, lines 243-245: the identity must be established.
checkIdentity(p) ==
    /\ pc[p] = "ident"
    /\ EndPhase(p, "ident", IsInitialized(Info), {}, "mgr")
    /\ UNCHANGED <<schedVars, Info, initCompleted, spec, clusterInfo, child,
                   clusterSpec, isUpgrade, requests, cephVersion, gate, differ, probe, platform, ranPass>>

\* the specs mgr.New reads: the copy, and c.Spec for the annotations and
\* the data dir host path
mgrSpecs(p) == {spec[p], clusterSpec}

\* What mgr.Cluster.Start is answered, in the order it asks: memory is
\* opspec.CheckPodMemory, keyring is generateKeyring, deployment the
\* Create of the mgr deployment, update is updateDeploymentAndWait and
\* service the Create of the metrics service. A question Start does not
\* come to has the answer "none". mgr.New sets Replicas to 1, so the loop
\* over the daemons has one iteration.
MgrAnswers ==
    {a \in [memory : {"ok", "error"},
            keyring : {"ok", "error", "none"},
            deployment : CreateAnswers \cup {"none"},
            update : {"ok", "error", "none"},
            service : CreateAnswers \cup {"none"}] :
        /\ a.keyring # "none" <=> a.memory = "ok"
        /\ a.deployment # "none" <=> a.keyring = "ok"
        /\ a.update # "none" <=> a.deployment = "exists"
        /\ a.service # "none" <=>
               (a.deployment = "created" \/ a.update = "ok")}

\* a Start that takes every error of the Create of the deployment, the
\* already-exists one too, as a failure
mgrStartFailingOnExists(a) ==
    IF a.memory = "error" THEN "memory"
    ELSE IF a.keyring = "error" THEN "keyring"
    ELSE IF a.deployment # "created" THEN "createDeployment"
    ELSE IF a.service = "error" THEN "createService"
    ELSE "nil"

\* mgr.Cluster.Start(): the error it returns. The failures of the
\* orchestrator modules, the prometheus module, the dashboard and the
\* monitoring are logged only.
mgrStart(a) ==
    IF a.memory = "error" THEN "memory"
    ELSE IF a.keyring = "error" THEN "keyring"
    ELSE IF a.deployment = "error" THEN "createDeployment"
    ELSE IF a.deployment = "exists" /\ a.update = "error"
         THEN "updateDeployment"
    ELSE IF a.service = "error" THEN "createService"
    ELSE "nil"

\* doOrchestration, lines 247-253: mgr.New(...) and mgrs.Start()
startMgrs(p) ==
    /\ pc[p] = "mgr"
    /\ \E a \in MgrAnswers :
          /\ EndPhase(p, "mgr", mgrStart(a) = "nil", mgrSpecs(p), "osd")
          /\ platform' = [phase |-> "mgr", answers |-> a,
                          err |-> mgrStart(a)]
    /\ UNCHANGED <<schedVars, Info, initCompleted, spec, clusterInfo, child,
                   clusterSpec, isUpgrade, requests, cephVersion, gate, differ, probe, ranPass>>

\* the specs osd.New reads: the copy only
osdSpecs(p) == {spec[p]}

\* doOrchestration, lines 256-262: osd.New(...) and osds.Start()
startOSDs(p) ==
    /\ pc[p] = "osd"
    /\ \E ok \in BOOLEAN : EndPhase(p, "osd", ok, osdSpecs(p), "rbd")
    /\ platform' = NoAnswers
    /\ UNCHANGED <<schedVars, Info, initCompleted, spec, clusterInfo, child,
                   clusterSpec, isUpgrade, requests, cephVersion, gate, differ, probe, ranPass>>

\* the specs rbd.New reads: the copy, and c.Spec for the data dir host path
rbdSpecs(p) == {spec[p], clusterSpec}

\* doOrchestration, lines 265-271: rbd.New(...) and rbdmirror.Start()
startRBDMirror(p) ==
    /\ pc[p] = "rbd"
    /\ \E ok \in BOOLEAN : EndPhase(p, "rbd", ok, rbdSpecs(p), "init")
    /\ UNCHANGED <<schedVars, Info, initCompleted, spec, clusterInfo, child,
                   clusterSpec, isUpgrade, requests, cephVersion, gate, differ, probe, platform, ranPass>>

\* doOrchestration, lines 273-274: c.initCompleted = true; the range loop
\* over c.childControllers starts at its first element.
setInitCompleted(p) ==
    /\ pc[p] = "init"
    /\ initCompleted' = TRUE
    /\ child' = [child EXCEPT ![p] = 1]
    /\ passLog' = [passLog EXCEPT ![p] =
                      Append(@, [phase |-> "init", ok |-> TRUE])]
    /\ pc' = [pc EXCEPT ![p] = "notify"]
    /\ UNCHANGED <<schedVars, Info, spec, clusterInfo, used, clusterSpec,
                   isUpgrade, err, requests, cephVersion, gate, differ, probe, platform, ranPass>>

\* the spec a child controller is handed: *c.Spec
childSpec(p) == clusterSpec

\* doOrchestration, lines 277-279: one iteration of the loop,
\* child.ParentClusterChanged(*c.Spec, clusterInfo, c.isUpgrade)
notifyChild(p) ==
    /\ pc[p] = "notify"
    /\ child[p] <= NumChildren
    /\ passLog' = [passLog EXCEPT ![p] =
                      Append(@, [phase |-> "notify", ok |-> TRUE,
                                 child |-> child[p], spec |-> childSpec(p),
                                 info |-> clusterInfo[p],
                                 isUpgrade |-> isUpgrade])]
    /\ used' = [used EXCEPT ![p] = @ \cup {childSpec(p)}]
    /\ child' = [child EXCEPT ![p] = @ + 1]
    /\ UNCHANGED <<schedVars, Info, initCompleted, spec, clusterInfo,
                   clusterSpec, isUpgrade, pc, err, requests, cephVersion, gate, differ, probe, platform, ranPass>>

\* a doOrchestration that may return nil before the loop over the child
\* controllers is over
returnNilSkippingChildren(p) ==
    /\ pc[p] = "notify"
    /\ pc' = [pc EXCEPT ![p] = "unset"]
    /\ err' = [err EXCEPT ![p] = "nil"]
    /\ UNCHANGED <<schedVars, passVars, clusterSpec, isUpgrade, requests, cephVersion, gate, differ, probe, platform, ranPass>>

\* a createInstance that keeps the first error of its passes: the nil of a
\* later pass does not replace it
returnNilKeepingErr(p) ==
    /\ pc[p] = "notify"
    /\ child[p] > NumChildren
    /\ pc' = [pc EXCEPT ![p] = "unset"]
    /\ UNCHANGED <<schedVars, passVars, clusterSpec, isUpgrade, err, requests,
                   cephVersion, gate, differ, probe, platform, ranPass>>

\* doOrchestration, line 281: the loop is over, return nil.
returnNil(p) ==
    /\ pc[p] = "notify"
    /\ child[p] > NumChildren
    /\ pc' = [pc EXCEPT ![p] = "unset"]
    /\ err' = [err EXCEPT ![p] = "nil"]
    /\ UNCHANGED <<schedVars, passVars, clusterSpec, isUpgrade, requests, cephVersion, gate, differ, probe, platform, ranPass>>

\* doOrchestration: the step of the goroutine that is inside it
doOrchestration(p) ==
    \/ createOverrideConfigMap(p)
    \/ startMons(p)
    \/ checkIdentity(p)
    \/ startMgrs(p)
    \/ startOSDs(p)
    \/ startRBDMirror(p)
    \/ setInitCompleted(p)
    \/ notifyChild(p)
    \/ returnNil(p)

\* a step of goroutine p once it is inside createInstance
Step(p) ==
    \/ setOrchestrationNeeded(p)
    \/ checkLock(p)
    \/ checkSetOrchestrationStatus(p)
    \/ DeepCopy(p)
    \/ doOrchestration(p)
    \/ unsetLock(p)
    \/ unsetOrchestrationStatus(p)

Next ==
    \/ \E p \in Procs : createInstance(p)
    \/ \E p \in Procs : Step(p)
    \/ SpecUpdate

Spec == Init /\ [][Next]_vars

\* The scheduling alone: the spec in c.Spec stays as it is (no step of
\* createInstance branches on it), goroutines are scheduled fairly and every
\* call a pass makes returns.
LiveNext ==
    \/ \E p \in Procs : createInstance(p)
    \/ \E p \in Procs : Step(p)

LiveSpec == Init /\ [][LiveNext]_vars /\ \A p \in Procs : WF_vars(Step(p))

\* ------------------------------------------------------- the upgrade gate
\* a diffImageSpecAndClusterRunningVersion that orders the two versions the
\* other way round
diffWithVersionsSwapped(imageSpecVersion, overall) ==
    IF Cardinality(overall) = 0 THEN [different |-> FALSE, err |-> "noOverall"]
    ELSE IF Cardinality(overall) > 1 THEN [different |-> TRUE, err |-> "nil"]
    ELSE LET parsed == ExtractCephVersion(CHOOSE v \in overall : TRUE)
             clusterRunningVersion == parsed.version
         IN  IF parsed.err THEN [different |-> FALSE, err |-> "unparseable"]
             ELSE IF IsIdentical(clusterRunningVersion, imageSpecVersion)
                  THEN [different |-> FALSE, err |-> "nil"]
             ELSE IF IsSuperior(clusterRunningVersion, imageSpecVersion)
                  THEN [different |-> TRUE, err |-> "nil"]
             ELSE IF IsInferior(clusterRunningVersion, imageSpecVersion)
                  THEN [different |-> TRUE, err |-> "downgrade"]
             ELSE [different |-> FALSE, err |-> "nil"]

\* a diffImageSpecAndClusterRunningVersion that follows its doc comment
\* ("returns false if the image is different and true if identical")
diffAsDocumented(imageSpecVersion, overall) ==
    IF Cardinality(overall) = 0 THEN [different |-> FALSE, err |-> "noOverall"]
    ELSE IF Cardinality(overall) > 1 THEN [different |-> TRUE, err |-> "nil"]
    ELSE LET parsed == ExtractCephVersion(CHOOSE v \in overall : TRUE)
             clusterRunningVersion == parsed.version
         IN  IF parsed.err THEN [different |-> FALSE, err |-> "unparseable"]
             ELSE IF IsIdentical(clusterRunningVersion, imageSpecVersion)
                  THEN [different |-> TRUE, err |-> "nil"]
             ELSE IF IsSuperior(imageSpecVersion, clusterRunningVersion)
                  THEN [different |-> FALSE, err |-> "nil"]
             ELSE IF IsInferior(imageSpecVersion, clusterRunningVersion)
                  THEN [different |-> TRUE, err |-> "downgrade"]
             ELSE [different |-> FALSE, err |-> "nil"]

\* a diffImageSpecAndClusterRunningVersion that parses and compares one of
\* the running versions also when there are several
diffComparingFirstOfSeveral(imageSpecVersion, overall) ==
    IF Cardinality(overall) = 0 THEN [different |-> FALSE, err |-> "noOverall"]
    ELSE LET parsed == ExtractCephVersion(CHOOSE v \in overall : TRUE)
             clusterRunningVersion == parsed.version
         IN  IF parsed.err THEN [different |-> FALSE, err |-> "unparseable"]
             ELSE IF IsIdentical(clusterRunningVersion, imageSpecVersion)
                  THEN [different |-> FALSE, err |-> "nil"]
             ELSE IF IsSuperior(imageSpecVersion, clusterRunningVersion)
                  THEN [different |-> TRUE, err |-> "nil"]
             ELSE IF IsInferior(imageSpecVersion, clusterRunningVersion)
                  THEN [different |-> TRUE, err |-> "downgrade"]
             ELSE [different |-> FALSE, err |-> "nil"]

\* diffImageSpecAndClusterRunningVersion(imageSpecVersion, runningVersions):
\* the (bool, error) pair it returns, from the keys of runningVersions.Overall
diffImageSpecAndClusterRunningVersion(imageSpecVersion, overall) ==
    IF Cardinality(overall) = 0 THEN [different |-> FALSE, err |-> "noOverall"]
    ELSE IF Cardinality(overall) > 1 THEN [different |-> TRUE, err |-> "nil"]
    ELSE LET parsed == ExtractCephVersion(CHOOSE v \in overall : TRUE)
             clusterRunningVersion == parsed.version
         IN  IF parsed.err THEN [different |-> FALSE, err |-> "unparseable"]
             ELSE IF IsIdentical(clusterRunningVersion, imageSpecVersion)
                  THEN [different |-> FALSE, err |-> "nil"]
             ELSE IF IsSuperior(imageSpecVersion, clusterRunningVersion)
                  THEN [different |-> TRUE, err |-> "nil"]
             ELSE IF IsInferior(imageSpecVersion, clusterRunningVersion)
                  THEN [different |-> TRUE, err |-> "downgrade"]
             ELSE [different |-> FALSE, err |-> "nil"]

\* validateCephVersion returns: what the call read and did is kept in gate,
\* with the health the cluster had during the call, asked for or not
GateReturn(version, allow, healthy, loaded, fetched, overall, diff, health, e) ==
    gate' = [called |-> TRUE, version |-> version, allowUnsupported |-> allow,
             loaded |-> loaded, fetched |-> fetched, overall |-> overall,
             diff |-> diff, healthy |-> healthy, health |-> health, err |-> e]

\* a validateCephVersion tail that marks the upgrade before it looks at the
\* cluster's health
upgradeMarkedBeforeHealth(version, allow, cephHealthy, loaded, overall) ==
    /\ isUpgrade' = TRUE
    /\ GateReturn(version, allow, cephHealthy, loaded, "ok", overall,
                  "different", "asked",
                  IF cephHealthy THEN "nil" ELSE "unhealthy")

\* validateCephVersion, lines 176-184: the images differ, so ask for the
\* cluster's health (client.IsCephHealthy); refuse when it is not healthy,
\* else mark the upgrade.
upgradeIfHealthy(version, allow, cephHealthy, loaded, overall) ==
    IF ~cephHealthy
    THEN /\ GateReturn(version, allow, cephHealthy, loaded, "ok", overall,
                       "different", "asked", "unhealthy")
         /\ UNCHANGED isUpgrade
    ELSE /\ GateReturn(version, allow, cephHealthy, loaded, "ok", overall,
                       "different", "asked", "nil")
         /\ isUpgrade' = TRUE

\* a validateCephVersion that returns the error of
\* diffImageSpecAndClusterRunningVersion instead of logging it
compareReturningDiffError(version, allow, cephHealthy, loaded) ==
    \E fetchFailed \in BOOLEAN, overall \in Overalls :
        IF fetchFailed
        THEN /\ overall = {}
             /\ GateReturn(version, allow, cephHealthy, loaded, "error", {},
                           "uncalled", "unasked", "nil")
             /\ UNCHANGED isUpgrade
        ELSE LET d == diffImageSpecAndClusterRunningVersion(version, overall) IN
             IF d.err # "nil"
             THEN /\ GateReturn(version, allow, cephHealthy, loaded, "ok",
                                overall, d.err, "unasked", d.err)
                  /\ UNCHANGED isUpgrade
             ELSE IF d.different
             THEN upgradeIfHealthy(version, allow, cephHealthy, loaded, overall)
             ELSE /\ GateReturn(version, allow, cephHealthy, loaded, "ok",
                                overall, "same", "unasked", "nil")
                  /\ UNCHANGED isUpgrade

\* a validateCephVersion that returns the error of GetAllCephDaemonVersions
\* instead of logging it
compareFailingOnFetchError(version, allow, cephHealthy, loaded) ==
    \E fetchFailed \in BOOLEAN, overall \in Overalls :
        IF fetchFailed
        THEN /\ overall = {}
             /\ GateReturn(version, allow, cephHealthy, loaded, "error", {},
                           "uncalled", "unasked", "fetch")
             /\ UNCHANGED isUpgrade
        ELSE LET d == diffImageSpecAndClusterRunningVersion(version, overall) IN
             IF d.err # "nil"
             THEN /\ GateReturn(version, allow, cephHealthy, loaded, "ok",
                                overall, d.err, "unasked", "nil")
                  /\ UNCHANGED isUpgrade
             ELSE IF d.different
             THEN upgradeIfHealthy(version, allow, cephHealthy, loaded, overall)
             ELSE /\ GateReturn(version, allow, cephHealthy, loaded, "ok",
                                overall, "same", "unasked", "nil")
                  /\ UNCHANGED isUpgrade

\* a validateCephVersion that stores the outcome of the comparison in
\* c.isUpgrade, also when the images are the same
compareResettingUpgrade(version, allow, cephHealthy, loaded) ==
    \E fetchFailed \in BOOLEAN, overall \in Overalls :
        IF fetchFailed
        THEN /\ overall = {}
             /\ GateReturn(version, allow, cephHealthy, loaded, "error", {},
                           "uncalled", "unasked", "nil")
             /\ UNCHANGED isUpgrade
        ELSE LET d == diffImageSpecAndClusterRunningVersion(version, overall) IN
             IF d.err # "nil"
             THEN /\ GateReturn(version, allow, cephHealthy, loaded, "ok",
                                overall, d.err, "unasked", "nil")
                  /\ UNCHANGED isUpgrade
             ELSE IF d.different
             THEN upgradeIfHealthy(version, allow, cephHealthy, loaded, overall)
             ELSE /\ GateReturn(version, allow, cephHealthy, loaded, "ok",
                                overall, "same", "unasked", "nil")
                  /\ isUpgrade' = FALSE

\* validateCephVersion, lines 159-186: the identity is established, so fetch
\* the running versions (client.GetAllCephDaemonVersions) and compare them
\* with the image's.
compareRunningVersions(version, allow, cephHealthy, loaded) ==
    \E fetchFailed \in BOOLEAN, overall \in Overalls :
        IF fetchFailed
        THEN /\ overall = {}
             /\ GateReturn(version, allow, cephHealthy, loaded, "error", {},
                           "uncalled", "unasked", "nil")
             /\ UNCHANGED isUpgrade
        ELSE LET d == diffImageSpecAndClusterRunningVersion(version, overall) IN
             IF d.err # "nil"
             THEN /\ GateReturn(version, allow, cephHealthy, loaded, "ok",
                                overall, d.err, "unasked", "nil")
                  /\ UNCHANGED isUpgrade
             ELSE IF d.different
             THEN upgradeIfHealthy(version, allow, cephHealthy, loaded, overall)
             ELSE /\ GateReturn(version, allow, cephHealthy, loaded, "ok",
                                overall, "same", "unasked", "nil")
                  /\ UNCHANGED isUpgrade

\* mon.LoadClusterInfo: the identity it returns, none when it fails
LoadResults == {[info |-> i, err |-> FALSE] : i \in Infos}
                   \cup {[info |-> "nil", err |-> TRUE]}

\* a validateCephVersion that looks at the supported list before the minimum
requirementsSupportedFirst(version, allow) ==
    IF ~Supported(version) /\ ~allow THEN "unsupported"
    ELSE IF ~IsAtLeast(version, Minimum) THEN "belowMinimum"
    ELSE "nil"

\* validateCephVersion, lines 127-136: the error of the version requirements,
\* allow being c.Spec.CephVersion.AllowUnsupported
versionRequirements(version, allow) ==
    IF ~IsAtLeast(version, Minimum) THEN "belowMinimum"
    ELSE IF ~Supported(version) /\ ~allow THEN "unsupported"
    ELSE "nil"

\* a validateCephVersion that goes on to the running versions only when
\* LoadClusterInfo returned no error, whatever identity it returned
compareUnlessLoadFailed(version, allow, cephHealthy, l) ==
    LET loaded == IF l.err THEN "error" ELSE l.info IN
    IF l.err
    THEN /\ GateReturn(version, allow, cephHealthy, loaded, "uncalled",
                       {}, "uncalled", "unasked", "nil")
         /\ UNCHANGED isUpgrade
    ELSE compareRunningVersions(version, allow, cephHealthy, loaded)

\* validateCephVersion, lines 153-186: with the answer l of
\* mon.LoadClusterInfo, return nil for a cluster whose identity is not
\* established, else compare the versions.
compareIfInitialized(version, allow, cephHealthy, l) ==
    LET loaded == IF l.err THEN "error" ELSE l.info IN
    IF ~IsInitialized(l.info)
    THEN /\ GateReturn(version, allow, cephHealthy, loaded, "uncalled",
                       {}, "uncalled", "unasked", "nil")
         /\ UNCHANGED isUpgrade
    ELSE compareRunningVersions(version, allow, cephHealthy, loaded)

\* validateCephVersion(version), the whole call: the version requirements,
\* the identity (mon.LoadClusterInfo), the running versions, the cluster's
\* health.  cephHealthy is the health of the cluster during the call; the
\* answers of LoadClusterInfo and GetAllCephDaemonVersions are drawn when the
\* code asks for them.  A failure of mon.WriteConnectionConfig is logged and
\* changes nothing.
validateCephVersion ==
    \E version \in Versions, allow \in BOOLEAN, cephHealthy \in BOOLEAN :
        LET e == versionRequirements(version, allow) IN
        IF e # "nil"
        THEN /\ GateReturn(version, allow, cephHealthy, "uncalled", "uncalled",
                           {}, "uncalled", "unasked", e)
             /\ UNCHANGED isUpgrade
        ELSE \E l \in LoadResults :
                 compareIfInitialized(version, allow, cephHealthy, l)

\* the gate on its own: validateCephVersion called again and again on one
\* cluster object, with whatever the cluster answers
GateNext ==
    /\ validateCephVersion
    /\ UNCHANGED <<schedVars, passVars, clusterSpec, pc, err, requests,
                   cephVersion, differ, probe, platform, ranPass>>

GateSpec == Init /\ [][GateNext]_vars

\* The gate and the passes on one cluster object: one goroutine handles
\* the events in turn, and for each of them it calls validateCephVersion
\* and then, whatever the gate answered (a caller that stops on the gate's
\* error leaves the object as it is), createInstance.
Worker == CHOOSE p \in Procs : TRUE

validateBeforeCreate ==
    /\ pc[Worker] = "idle"
    /\ requests < MaxRequests
    /\ GateNext

UpgradeNext ==
    \/ validateBeforeCreate
    \/ createInstance(Worker)
    \/ Step(Worker)

UpgradeSpec == Init /\ [][UpgradeNext]_vars

\* ---------------------------------------------------------- clusterChanged
\* rookv1alpha2.Node values: the name the list is sorted by and the rest of
\* the node's settings.
NodeNames == {"a", "b"}

NodeConfigs == {"devices", "directories"}

Nodes == [Name : NodeNames, Config : NodeConfigs]

\* the node lists of a spec (Storage.Nodes), of MaxNodes nodes at most
NodeLists == UNION {[1..n -> Nodes] : n \in 0..MaxNodes}

\* cephv1.ClusterSpec values, as far as clusterChanged tells them apart: the
\* node list and all the other settings taken together.
ClusterSpecs == [Nodes : NodeLists, Rest : {"mons3", "mons5"}]

\* NodesByName.Less: the order of the names
Less(x, y) == x.Name = "a" /\ y.Name = "b"

\* sort.Sort's insertion step on a list shorter than seven nodes: the new
\* node moves left past every node that is not before it by name.
RECURSIVE insertionStep(_, _)
insertionStep(sorted, x) ==
    IF sorted = <<>> \/ ~Less(x, sorted[Len(sorted)])
    THEN Append(sorted, x)
    ELSE Append(insertionStep(SubSeq(sorted, 1, Len(sorted) - 1), x),
                sorted[Len(sorted)])

\* a clusterChanged that compares the node lists as they come
unsortedNodes(nodes) == nodes

\* sort.Sort(rookv1alpha2.NodesByName(nodes)), lines 287-288
RECURSIVE sortNodes(_)
sortNodes(nodes) ==
    IF nodes = <<>> THEN <<>>
    ELSE insertionStep(sortNodes(SubSeq(nodes, 1, Len(nodes) - 1)),
                       nodes[Len(nodes)])

\* What cmp.Diff can do on two specs that differ: give a text, give no
\* text, or panic
CmpOutcomes == {"diff", "", "panic"}

\* the anonymous function without its deferred recover: the panic goes on
\* to the caller of clusterChanged
diffWithoutRecover(outcome) ==
    [diff |-> IF outcome = "panic" THEN "" ELSE outcome,
     warned |-> FALSE, panics |-> outcome = "panic"]

\* The anonymous function around cmp.Diff: diff starts empty, a panic of
\* cmp.Diff is recovered and logged as a warning and leaves diff empty.
bestEffortDiff(outcome) ==
    [diff |-> IF outcome = "panic" THEN "" ELSE outcome,
     warned |-> outcome = "panic", panics |-> FALSE]

\* clusterChanged(oldCluster, newCluster, clusterRef), one call: both node
\* lists are sorted in place, the two specs are compared with
\* reflect.DeepEqual and, when they differ, cmp.Diff gives the text of the
\* difference, or nothing when it panics.
clusterChanged ==
    /\ ~differ.called
    /\ LET oldNodes == sortNodes(differ.oldCluster.Nodes)
           newNodes == sortNodes(differ.newCluster.Nodes)
           equal == /\ oldNodes = newNodes
                    /\ differ.oldCluster.Rest = differ.newCluster.Rest
       IN  \E outcome \in IF equal THEN {""} ELSE CmpOutcomes :
               LET d == IF equal THEN [diff |-> "", warned |-> FALSE,
                                       panics |-> FALSE]
                        ELSE bestEffortDiff(outcome)
               IN  differ' = [called |-> TRUE,
                              oldCluster |-> differ.oldCluster,
                              newCluster |-> differ.newCluster,
                              oldNodes |-> oldNodes, newNodes |-> newNodes,
                              returned |-> ~d.panics,
                              changed |-> ~equal /\ ~d.panics,
                              diff |-> d.diff, warned |-> d.warned]
    /\ UNCHANGED <<schedVars, passVars, clusterSpec, isUpgrade, pc, err,
                   requests, cephVersion, gate, probe, platform, ranPass>>

\* clusterChanged on its own, on any two specs
DiffInit ==
    /\ InitCluster
    /\ probe = NoProbe
    /\ differ \in {[called |-> FALSE, oldCluster |-> o, newCluster |-> n] :
                       o \in ClusterSpecs, n \in ClusterSpecs}

DiffSpec == DiffInit /\ [][clusterChanged]_vars

\* ---------------------------------------------------------------------
\* detectCephVersion: the version job
\* ---------------------------------------------------------------------

\* exit codes of the job's command
Retcodes == {0, 1, 255}

\* the nil *cephver.CephVersion a failed call returns
NilVersion == CephVersion(0, 0, 0)

\* detectCephVersion with the text parsed before the exit code is looked at
detectParsingFirst(newErr, runErr, retcode, stdout) ==
    IF newErr THEN [version |-> NilVersion, err |-> "setup"]
    ELSE IF runErr THEN [version |-> NilVersion, err |-> "run"]
    ELSE LET parsed == ExtractCephVersion(stdout)
         IN  IF ~parsed.err THEN [version |-> parsed.version, err |-> "nil"]
             ELSE IF retcode # 0
                  THEN [version |-> NilVersion, err |-> "retcode"]
             ELSE [version |-> NilVersion, err |-> "extract"]

\* detectCephVersion(rookImage, cephImage, timeout) as a function of what
\* the platform does: newErr is an error of cmdreporter.New, runErr an
\* error of versionReporter.Run, retcode and stdout what the job's command
\* gave.
detectVersion(newErr, runErr, retcode, stdout) ==
    IF newErr THEN [version |-> NilVersion, err |-> "setup"]
    ELSE IF runErr THEN [version |-> NilVersion, err |-> "run"]
    ELSE IF retcode # 0 THEN [version |-> NilVersion, err |-> "retcode"]
    ELSE LET parsed == ExtractCephVersion(stdout)
         IN  IF parsed.err THEN [version |-> NilVersion, err |-> "extract"]
             ELSE [version |-> parsed.version, err |-> "nil"]

\* one call of detectCephVersion
detectCephVersion ==
    /\ ~probe.called
    /\ LET r == detectVersion(probe.newErr, probe.runErr, probe.retcode,
                              probe.stdout)
       IN  probe' = [called |-> TRUE, newErr |-> probe.newErr,
                     runErr |-> probe.runErr, retcode |-> probe.retcode,
                     stdout |-> probe.stdout,
                     version |-> r.version, err |-> r.err]
    /\ UNCHANGED <<schedVars, passVars, clusterSpec, isUpgrade, pc, err,
                   requests, cephVersion, gate, differ, platform, ranPass>>

\* detectCephVersion on its own, whatever the job does
ProbeInit ==
    /\ InitCluster
    /\ differ = NoDiffer
    /\ probe \in {[called |-> FALSE, newErr |-> n, runErr |-> r,
                   retcode |-> c, stdout |-> t] :
                      n \in BOOLEAN, r \in BOOLEAN, c \in Retcodes,
                      t \in VersionStrings}

ProbeSpec == ProbeInit /\ [][detectCephVersion]_vars

\* ------------------------------------------------------------ the claims
InPass(p) == pc[p] \in PassPcs

Quiescent == \A p \in Procs : pc[p] = "idle"

\* C1: at most one goroutine is between a successful
\* checkSetOrchestrationStatus and the end of its unsetOrchestrationStatus,
\* hence at most one is inside doOrchestration, and the running flag is set
\* exactly while one is.
C1_MutualExclusion ==
    /\ Cardinality({p \in Procs : InPass(p)}) <= 1
    /\ orchestrationRunning = (\E p \in Procs : InPass(p))

\* a goroutine is inside doOrchestration while another one, with a request
\* pending, is in checkSetOrchestrationStatus
C1_Witness ==
    \E p, q \in Procs :
        /\ p # q
        /\ pc[p] \in OrchPcs
        /\ pc[q] = "checkCS"
        /\ orchestrationNeeded

\* C2: when the latest setOrchestrationNeeded landed while a pass was running
\* (so one or more landed during that pass and none later), at most one pass
\* has been claimed since, and once every createInstance call has returned
\* exactly one has.
C2_ExactlyOneMorePass ==
    (lastSet.n >= 1 /\ lastSet.running) =>
        /\ lastSet.claims <= 1
        /\ Quiescent => lastSet.claims = 1

\* two requests landed during one pass, no later one, every call returned
C2_Witness ==
    /\ Quiescent
    /\ lastSet.running
    /\ lastSet.n >= 2
    /\ lastSet.claims = 1

\* a setOrchestrationNeeded has landed and no checkSetOrchestrationStatus has
\* succeeded since
Pending == lastSet.n >= 1 /\ lastSet.claims = 0

\* C3: every setOrchestrationNeeded is eventually followed by a successful
\* checkSetOrchestrationStatus, by whichever goroutine.
C3_EveryRequestServed == Pending ~> ~Pending

\* a request that landed while a pass was running is being served by a
\* later pass, which a goroutine other than the one that asked has claimed
C3_Witness ==
    /\ lastSet.running
    /\ lastSet.claims = 1
    /\ \E p, q \in Procs : p # q /\ InPass(p) /\ pc[q] = "idle" /\ requests = 2

\* C4: every spec a pass uses (the one given to the mon start, those the mgr,
\* osd and rbd-mirror constructors read, the one handed to each child
\* controller) is the DeepCopy taken at the start of that pass.
C4_PassUsesItsCopy ==
    \A p \in Procs : InPass(p) /\ pc[p] # "copy" => used[p] \subseteq {spec[p]}

\* the running version of a call that fetched exactly one, parseable, version
\* for a cluster whose identity is established
OneRunning(g) ==
    /\ g.called
    /\ g.loaded = "fsid"
    /\ g.fetched = "ok"
    /\ Cardinality(g.overall) = 1
    /\ \A text \in g.overall : ~ExtractCephVersion(text).err

RunningVersion(g) == ExtractCephVersion(CHOOSE text \in g.overall : TRUE).version

\* C5: a call that finds the one running version strictly above the desired
\* one fails with the downgrade error and leaves isUpgrade as it was.
C5_DowngradeRejected ==
    [][(OneRunning(gate') /\ IsSuperior(RunningVersion(gate'), gate'.version))
          => (gate'.err = "downgrade" /\ isUpgrade' = isUpgrade)]_vars

\* C6: a call that finds the one running version strictly below the desired
\* one, on an unhealthy cluster, asks for the health, returns the
\* not-healthy error and leaves isUpgrade as it was.
C6_UpgradeBlockedUnhealthy ==
    [][(/\ OneRunning(gate')
        /\ IsInferior(RunningVersion(gate'), gate'.version)
        /\ ~gate'.healthy)
          => (/\ gate'.health = "asked"
              /\ gate'.err = "unhealthy"
              /\ isUpgrade' = isUpgrade)]_vars

\* an upgrade refused on an unhealthy cluster, on an object no earlier call
\* has marked
C6_Witness ==
    /\ OneRunning(gate)
    /\ IsInferior(RunningVersion(gate), gate.version)
    /\ ~gate.healthy
    /\ gate.err = "unhealthy"
    /\ ~isUpgrade

C9_SeveralVersionsMeanUpgrade ==
    /\ \A v \in Versions, o \in Overalls :
          Cardinality(o) >= 2 =>
              diffImageSpecAndClusterRunningVersion(v, o)
                  = [different |-> TRUE, err |-> "nil"]
    /\ [][(gate'.called /\ gate'.fetched = "ok" /\ Cardinality(gate'.overall) >= 2)
             => (/\ gate'.diff = "different"
                 /\ gate'.health = "asked"
                 /\ gate'.healthy => (gate'.err = "nil" /\ isUpgrade')
                 /\ ~gate'.healthy => (gate'.err = "unhealthy"
                                        /\ isUpgrade' = isUpgrade))]_vars

\* two running versions, one of them not parseable and the other above the
\* desired one: an upgrade all the same
C9_Witness ==
    /\ gate.called
    /\ gate.fetched = "ok"
    /\ gate.overall = {Garbage, VersionString(CephVersion(14, 2, 2))}
    /\ gate.version = CephVersion(14, 2, 1)
    /\ gate.diff = "different"
    /\ gate.healthy
    /\ isUpgrade

\* the phases of doOrchestration in the order of the code
PhaseOrder == <<"cm", "mon", "ident", "mgr", "osd", "rbd", "init">>

PhaseAt(i) == IF i <= Len(PhaseOrder) THEN PhaseOrder[i] ELSE "notify"

\* C10: the log of a pass is a prefix of config-override placeholder, mon
\* start, identity check, mgr start, osd start, rbd-mirror start,
\* initCompleted, child notifications; every phase but the last one logged
\* succeeded; a goroutine inside doOrchestration is at the phase after the
\* last one logged; after a failed phase doOrchestration has returned an
\* error.
C10_PhasesInOrder ==
    \A p \in Procs :
        LET log == passLog[p] IN
        /\ \A i \in 1..Len(log) : log[i].phase = PhaseAt(i)
        /\ \A i \in 1..(Len(log) - 1) : log[i].ok
        /\ pc[p] \in OrchPcs =>
              /\ pc[p] = PhaseAt(Len(log) + 1)
              /\ \A i \in 1..Len(log) : log[i].ok
        /\ (Len(log) > 0 /\ ~log[Len(log)].ok) =>
              (pc[p] \in {"unset", "unsetCS"} /\ err[p] = "error")

\* a pass whose osd start failed after the four phases before it succeeded
C10_Witness ==
    \E p \in Procs :
        /\ Len(passLog[p]) = 5
        /\ passLog[p][5] = [phase |-> "osd", ok |-> FALSE]
        /\ pc[p] = "unset"

\* the entries of a pass's log that are ParentClusterChanged calls on child c
Notified(log, c) ==
    {i \in 1..Len(log) : log[i].phase = "notify" /\ log[i].child = c}

\* doOrchestration has returned and unsetOrchestrationStatus has not yet run
Returned(p) == pc[p] \in {"unset", "unsetCS"}

\* C11: no child controller is notified twice in a pass; a notification comes
\* after initCompleted was set in that pass, hence after the mon, mgr, osd
\* and rbd-mirror starts all succeeded; a pass that returned nil has notified
\* every registered child exactly once, and so has every pass whose four
\* starts succeeded; a pass that returned an error has notified none.
C11_ChildrenNotifiedOnce ==
    \A p \in Procs :
        LET log == passLog[p]
            started(ph) == \E i \in 1..Len(log) : log[i].phase = ph /\ log[i].ok
        IN
        /\ \A c \in 1..NumChildren : Cardinality(Notified(log, c)) <= 1
        /\ \A i \in 1..Len(log) :
              log[i].phase = "notify" =>
                  /\ initCompleted
                  /\ \E j \in 1..(i - 1) : log[j].phase = "init"
                  /\ \A ph \in {"mon", "mgr", "osd", "rbd"} : started(ph)
        /\ (Returned(p) /\ (\A ph \in {"mon", "mgr", "osd", "rbd"} : started(ph))) =>
              /\ err[p] = "nil"
              /\ \A c \in 1..NumChildren : Cardinality(Notified(log, c)) = 1
        /\ (Returned(p) /\ err[p] = "nil") =>
              \A c \in 1..NumChildren : Cardinality(Notified(log, c)) = 1
        /\ (Returned(p) /\ err[p] = "error") =>
              \A c \in 1..NumChildren : Notified(log, c) = {}

\* a pass has returned nil after it notified every child, the last one last
C11_Witness ==
    \E p \in Procs :
        /\ pc[p] = "unset"
        /\ err[p] = "nil"
        /\ Len(passLog[p]) = Len(PhaseOrder) + NumChildren
        /\ passLog[p][Len(passLog[p])].phase = "notify"
        /\ passLog[p][Len(passLog[p])].child = NumChildren

C13_PassGatesItsSpec ==
    \A p \in Procs :
        pc[p] \in {"ident", "mgr", "osd", "rbd", "init", "notify"} =>
            cephVersion[p] = spec[p]

\* how often node x occurs in a node list
Occurrences(nodes, x) == Cardinality({i \in 1..Len(nodes) : nodes[i] = x})

\* two specs that are equal except for the order of their node lists
SameButNodeOrder(o, n) ==
    /\ o.Rest = n.Rest
    /\ Len(o.Nodes) = Len(n.Nodes)
    /\ \A x \in Nodes : Occurrences(o.Nodes, x) = Occurrences(n.Nodes, x)

\* a node list in the order of its names, holding the nodes of another one
SortedByName(sorted, nodes) ==
    /\ Len(sorted) = Len(nodes)
    /\ \A x \in Nodes : Occurrences(sorted, x) = Occurrences(nodes, x)
    /\ \A i \in 1..(Len(sorted) - 1) : ~Less(sorted[i + 1], sorted[i])

\* C14: a clusterChanged call on two specs that are equal except for the
\* order of their node lists returns (false, ""); every call leaves both
\* node lists sorted by name and returns changed = true exactly when the
\* specs are then not equal, with no diff when it returns false.
C14_ReorderingIsNoChange ==
    differ.called =>
        /\ SameButNodeOrder(differ.oldCluster, differ.newCluster) =>
               (~differ.changed /\ differ.diff = "")
        /\ SortedByName(differ.oldNodes, differ.oldCluster.Nodes)
        /\ SortedByName(differ.newNodes, differ.newCluster.Nodes)
        /\ differ.changed =
               ~(/\ differ.oldNodes = differ.newNodes
                 /\ differ.oldCluster.Rest = differ.newCluster.Rest)
        /\ ~differ.changed => differ.diff = ""

\* no two different nodes of the list have the same name
DistinctNames(nodes) ==
    \A i, j \in 1..Len(nodes) :
        nodes[i].Name = nodes[j].Name => nodes[i] = nodes[j]

\* C14, amended: as C14, for the specs in whose node list the nodes of one
\* name are all the same; the other parts hold of every call.
C14_ReorderingDistinctNames ==
    differ.called =>
        /\ (/\ SameButNodeOrder(differ.oldCluster, differ.newCluster)
            /\ DistinctNames(differ.oldCluster.Nodes)) =>
               (~differ.changed /\ differ.diff = "")
        /\ SortedByName(differ.oldNodes, differ.oldCluster.Nodes)
        /\ SortedByName(differ.newNodes, differ.newCluster.Nodes)
        /\ differ.changed =
               ~(/\ differ.oldNodes = differ.newNodes
                 /\ differ.oldCluster.Rest = differ.newCluster.Rest)
        /\ ~differ.changed => differ.diff = ""

\* two specs that list the same two nodes in opposite orders were compared
\* and found unchanged
C14_Witness ==
    /\ differ.called
    /\ SameButNodeOrder(differ.oldCluster, differ.newCluster)
    /\ differ.oldCluster.Nodes # differ.newCluster.Nodes
    /\ differ.oldCluster.Nodes # differ.oldNodes
    /\ ~differ.changed

\* a call that fetched the running versions of a cluster whose identity is
\* established and found no entry in Overall
EmptyOverall(g) ==
    g.called /\ g.loaded = "fsid" /\ g.fetched = "ok" /\ g.overall = {}

\* C15: a call that finds the identity established and Overall empty returns
\* an error.
C15_EmptyOverallFails == EmptyOverall(gate) => gate.err # "nil"

\* C15, amended: on an empty Overall diffImageSpecAndClusterRunningVersion
\* fails, for every desired version; validateCephVersion takes that error
\* for a reason not to decide, returns nil, does not ask for the cluster's
\* health and leaves isUpgrade as it was.
C15_EmptyOverallIsLogged ==
    /\ \A v \in Versions :
          diffImageSpecAndClusterRunningVersion(v, {})
              = [different |-> FALSE, err |-> "noOverall"]
    /\ [][EmptyOverall(gate') =>
             (/\ gate'.diff = "noOverall"
              /\ gate'.err = "nil"
              /\ gate'.health = "unasked"
              /\ isUpgrade' = isUpgrade)]_vars

\* an empty Overall on an unhealthy cluster: no error, and the mark of an
\* earlier call is still there
C15_Witness ==
    /\ EmptyOverall(gate)
    /\ gate.diff = "noOverall"
    /\ gate.err = "nil"
    /\ ~gate.healthy
    /\ isUpgrade

\* a call that returned before it loaded the identity, fetched the running
\* versions or asked for the health
ReturnedAtRequirements(g) ==
    g.loaded = "uncalled" /\ g.fetched = "uncalled" /\ g.health = "unasked"

\* C16: a call with a version below the minimum fails with the minimum's
\* error, whether or not the version is supported or allowed; one with a
\* version at or above the minimum that is not supported and not allowed
\* fails with the other error; both return before anything is loaded or
\* queried and leave isUpgrade as it was; every other call goes on to load
\* the identity and returns neither error.
C16_RequirementsFirst ==
    [][gate'.called =>
          IF IsInferior(gate'.version, Minimum)
          THEN /\ gate'.err = "belowMinimum"
               /\ ReturnedAtRequirements(gate')
               /\ isUpgrade' = isUpgrade
          ELSE IF ~Supported(gate'.version) /\ ~gate'.allowUnsupported
          THEN /\ gate'.err = "unsupported"
               /\ ReturnedAtRequirements(gate')
               /\ isUpgrade' = isUpgrade
          ELSE /\ gate'.err \notin {"belowMinimum", "unsupported"}
               /\ gate'.loaded # "uncalled"]_vars

\* a version that is neither at the minimum nor supported, not allowed,
\* refused for being below the minimum, on an object an earlier call marked
C16_Witness ==
    /\ gate.called
    /\ gate.version = CephVersion(12, 2, 9)
    /\ ~gate.allowUnsupported
    /\ gate.err = "belowMinimum"
    /\ isUpgrade

\* C17: a call whose version meets the requirements and that loads no
\* established identity (a nil one, an incomplete one, or none because the
\* load failed) returns nil without fetching the running versions or asking
\* for the health, and leaves isUpgrade as it was.
C17_FreshClusterPasses ==
    [][(/\ gate'.called
        /\ versionRequirements(gate'.version, gate'.allowUnsupported) = "nil"
        /\ gate'.loaded \in {"nil", "empty", "error"})
          => (/\ gate'.err = "nil"
              /\ gate'.fetched = "uncalled"
              /\ gate'.health = "unasked"
              /\ isUpgrade' = isUpgrade)]_vars

\* the identity loaded without an error is not complete yet, on an
\* unhealthy cluster: the call returned nil and fetched nothing
C17_Witness ==
    /\ gate.called
    /\ gate.loaded = "empty"
    /\ gate.fetched = "uncalled"
    /\ gate.err = "nil"
    /\ ~gate.healthy

\* C18: a call that finds the identity established and cannot fetch the
\* running versions returns nil, compares nothing, does not ask for the
\* health and leaves isUpgrade as it was, healthy cluster or not.
C18_FetchFailureIsLogged ==
    [][(gate'.called /\ gate'.loaded = "fsid" /\ gate'.fetched = "error")
          => (/\ gate'.err = "nil"
              /\ gate'.diff = "uncalled"
              /\ gate'.health = "unasked"
              /\ isUpgrade' = isUpgrade)]_vars

\* the fetch failed on an unhealthy cluster that no call has marked: the
\* call returned nil
C18_Witness ==
    /\ gate.called
    /\ gate.loaded = "fsid"
    /\ gate.fetched = "error"
    /\ ~gate.healthy
    /\ gate.err = "nil"
    /\ ~isUpgrade

\* the positions between Lock and Unlock in the three status methods
LockedPcs == {"setCS", "checkCS", "unsetCS"}

\* C19: a goroutine holds orchMux exactly while it is inside the body of
\* setOrchestrationNeeded, checkSetOrchestrationStatus or
\* unsetOrchestrationStatus, so never inside doOrchestration; the step that
\* follows for the holder is the body with its Unlock; and the two flags
\* change in such a step only.
C19_FlagsUnderLock ==
    /\ [](\A p \in Procs : (orchMux = p) = (pc[p] \in LockedPcs))
    /\ [][\A p \in Procs :
             (orchMux = p /\ pc'[p] # pc[p]) => orchMux' = 0]_vars
    /\ [][(\/ orchestrationNeeded' # orchestrationNeeded
           \/ orchestrationRunning' # orchestrationRunning)
             => \E p \in Procs : /\ orchMux = p
                                  /\ pc[p] \in LockedPcs
                                  /\ pc'[p] \notin LockedPcs
                                  /\ orchMux' = 0]_vars

\* a goroutine holds the lock to set the flag while another one is inside
\* doOrchestration
C19_Witness ==
    \E p, q \in Procs :
        /\ pc[p] \in OrchPcs
        /\ pc[q] = "setCS"
        /\ orchMux = q

\* C20: while a request is pending and no pass is running, some goroutine
\* is inside createInstance with a checkSetOrchestrationStatus call still to
\* come; and a call returns only from a checkSetOrchestrationStatus that
\* found no request pending or a pass running, which it leaves so.
C20_NoRequestLeftBehind ==
    /\ []((orchestrationNeeded /\ ~orchestrationRunning) =>
             \E p \in Procs : pc[p] \in {"setCS", "check", "checkCS"})
    /\ [][\A p \in Procs :
             (pc[p] # "idle" /\ pc'[p] = "idle") =>
                 /\ pc[p] = "checkCS"
                 /\ (~orchestrationNeeded) \/ orchestrationRunning
                 /\ orchestrationNeeded' = orchestrationNeeded
                 /\ orchestrationRunning' = orchestrationRunning]_vars

\* a request that landed during a pass is pending after the pass's
\* unsetOrchestrationStatus; its caller has returned and the goroutine that
\* ran the pass is about to test the loop condition again
C20_Witness ==
    /\ orchestrationNeeded
    /\ ~orchestrationRunning
    /\ lastSet.running
    /\ lastSet.claims = 0
    /\ \E p \in Procs :
          /\ pc[p] = "check"
          /\ \A q \in Procs \ {p} : pc[q] = "idle"

\* C21: clusterChanged always returns to its caller; what it answers for
\* "changed" is the outcome of the deep comparison of the two specs (node
\* lists sorted) and of nothing else, and when computing the text of the
\* difference panics the answer is changed = true with an empty text.
DeepEqual(d) ==
    /\ d.oldNodes = d.newNodes
    /\ d.oldCluster.Rest = d.newCluster.Rest

C21_DiffFailureSwallowed ==
    differ.called =>
        /\ differ.returned
        /\ differ.changed <=> ~DeepEqual(differ)
        /\ differ.warned => differ.changed /\ differ.diff = ""

C21_Witness ==
    /\ differ.called /\ differ.returned
    /\ differ.warned /\ differ.changed /\ differ.diff = ""

\* C22: detectCephVersion fails whenever the job's exit code is not 0,
\* whatever its stdout holds; the error it returns is that of the first of
\* job set-up, run, exit code and parsing of stdout that fails, and it
\* returns a version, the one stdout holds, only when none of them fails.
Parseable(text) == ~ExtractCephVersion(text).err

C22_ProbeChecksInOrder ==
    probe.called =>
        /\ probe.retcode # 0 => probe.err # "nil"
        /\ probe.err = "setup" <=> probe.newErr
        /\ probe.err = "run" <=> (~probe.newErr /\ probe.runErr)
        /\ probe.err = "retcode" <=>
               (~probe.newErr /\ ~probe.runErr /\ probe.retcode # 0)
        /\ probe.err = "extract" <=>
               (/\ ~probe.newErr /\ ~probe.runErr /\ probe.retcode = 0
                /\ ~Parseable(probe.stdout))
        /\ probe.err = "nil" <=> probe.version # NilVersion
        /\ probe.err = "nil" => VersionString(probe.version) = probe.stdout

C22_Witness ==
    /\ probe.called
    /\ ~probe.newErr /\ ~probe.runErr
    /\ probe.retcode # 0 /\ Parseable(probe.stdout)
    /\ probe.err = "retcode" /\ probe.version = NilVersion

\* C23: an already-exists answer does not fail a pass. After such an
\* answer to the Create of the override configmap the pass is at the mon
\* start; in mgr.Cluster.Start an already-exists answer for the deployment
\* is followed by updateDeploymentAndWait and Start then fails only with
\* the error of that update, an already-exists answer for the metrics
\* service is no failure, and a Start that was answered without any error
\* (created, already exists, updated) returns nil and the pass goes on to
\* the osds.
JustEnded(p, phase, ok) ==
    /\ passLog[p] # <<>>
    /\ passLog[p][Len(passLog[p])] = [phase |-> phase, ok |-> ok]
    /\ pc[p] \in IF ok THEN {"mon", "osd"} ELSE {"unset", "unsetCS"}

NoErrorAnswer(a) ==
    /\ a.memory # "error" /\ a.keyring # "error"
    /\ a.deployment # "error" /\ a.update # "error" /\ a.service # "error"

C23_AlreadyExistsIsNoFailure ==
    /\ platform.phase = "cm" =>
          \E p \in Procs :
             /\ JustEnded(p, "cm", platform.configMap # "error")
             /\ platform.configMap = "exists" => pc[p] = "mon"
    /\ platform.phase = "mgr" =>
          LET a == platform.answers IN
          \E p \in Procs :
             /\ JustEnded(p, "mgr", platform.err = "nil")
             /\ a.deployment = "exists" =>
                   /\ a.update # "none"
                   /\ platform.err \in
                         IF a.update = "error" THEN {"updateDeployment"}
                         ELSE IF a.service = "error" THEN {"createService"}
                         ELSE {"nil"}
             /\ a.service = "exists" => platform.err = "nil"
             /\ NoErrorAnswer(a) => (platform.err = "nil" /\ pc[p] = "osd")

C23_Witness ==
    /\ platform.phase = "mgr"
    /\ platform.answers.deployment = "exists"
    /\ platform.answers.update = "ok"
    /\ platform.answers.service = "exists"
    /\ \E p \in Procs : JustEnded(p, "mgr", TRUE) /\ pc[p] = "osd"

\* C24: no step of a pass up to and including a mon start that fails, and
\* no step of the release that follows, changes c.Info, c.initCompleted or
\* c.isUpgrade; c.Info changes only in the step in which the mon start
\* returns without error, to the clusterInfo it returned.
LastEntry(p) == passLog[p][Len(passLog[p])]

MonStartFailed(p) ==
    /\ passLog[p] # <<>>
    /\ LastEntry(p) = [phase |-> "mon", ok |-> FALSE]

C24_FailedMonStartChangesNothing ==
    /\ [][\A p \in Procs :
             (/\ pc[p] \in {"copy", "cm", "mon", "unset", "unsetCS"}
              /\ pc'[p] # pc[p]
              /\ pc'[p] # "ident")
                => /\ Info' = Info
                   /\ initCompleted' = initCompleted
                   /\ isUpgrade' = isUpgrade]_vars
    /\ [][Info' # Info =>
             \E p \in Procs :
                /\ pc[p] = "mon" /\ pc'[p] = "ident"
                /\ passLog'[p][Len(passLog'[p])] = [phase |-> "mon", ok |-> TRUE]
                /\ Info' = clusterInfo'[p]]_vars

C24_Witness ==
    \E p \in Procs :
       /\ MonStartFailed(p) /\ pc[p] = "unsetCS"
       /\ IsInitialized(Info) /\ initCompleted /\ isUpgrade

\* C25: c.isUpgrade is false until validateCephVersion is called, it
\* changes only in a call of validateCephVersion that found the versions
\* different and the cluster healthy, and only from false to true; no
\* step of createInstance writes it, and every ParentClusterChanged of a
\* pass carries the value it has, so once it is true every later
\* notification carries true, also after a call that found the versions
\* identical.
NotifiedUpgrade(p) ==
    {passLog[p][i].isUpgrade :
        i \in {j \in DOMAIN passLog[p] : passLog[p][j].phase = "notify"}}

C25_UpgradeIsNeverReset ==
    /\ [](~gate.called => ~isUpgrade)
    /\ [](\A p \in Procs : NotifiedUpgrade(p) \subseteq {isUpgrade})
    /\ [][isUpgrade => isUpgrade']_vars
    /\ [][isUpgrade' # isUpgrade =>
             /\ pc' = pc /\ passLog' = passLog
             /\ gate'.called /\ gate'.diff = "different"
             /\ gate'.health = "asked" /\ gate'.err = "nil"]_vars

C25_Witness ==
    /\ isUpgrade
    /\ gate.called /\ gate.diff = "same"
    /\ \E p \in Procs : NotifiedUpgrade(p) = {TRUE}

\* C26 as stated: what createInstance returns is the result of the last
\* pass of that call, nil when the call ran none. Its err is nil when the
\* call starts; it changes only there and when a doOrchestration of the
\* call returns, and then it is that pass's result whatever it was before;
\* a call refused at its first checkSetOrchestrationStatus because a pass
\* is running returns nil and its request is still pending.
PassResult(log) ==
    IF log # <<>> /\ ~log[Len(log)].ok THEN "error" ELSE "nil"

PassReturns(p) == pc[p] \in OrchPcs /\ pc'[p] = "unset"

RefusedAtFirstCheck(p) ==
    /\ pc[p] = "checkCS" /\ pc'[p] = "idle"
    /\ ~ranPass[p]
    /\ orchestrationRunning

ErrIsLastPassResult ==
    \A p \in Procs :
       /\ (pc[p] = "idle" /\ pc'[p] # "idle") => err'[p] = "nil"
       /\ PassReturns(p) => err'[p] = PassResult(passLog'[p])
       /\ err'[p] # err[p] => (pc[p] = "idle" \/ PassReturns(p))

C26_RefusedCallLeavesRequest ==
    /\ [](\A p \in Procs : Returned(p) => err[p] = PassResult(passLog[p]))
    /\ [][ErrIsLastPassResult]_vars
    /\ [][\A p \in Procs :
             RefusedAtFirstCheck(p) =>
                (err'[p] = "nil" /\ orchestrationNeeded')]_vars

\* C26, amended: the same, but the request of the call refused at its
\* first check is either still pending or was claimed, after it was made,
\* by the pass that is running.
ClaimedByRunningPass(p) ==
    /\ ~orchestrationNeeded'
    /\ lastSet'.claims = 1
    /\ \E q \in Procs \ {p} : pc'[q] \in PassPcs

C26_ResultOfLastPass ==
    /\ [](\A p \in Procs : Returned(p) => err[p] = PassResult(passLog[p]))
    /\ [][ErrIsLastPassResult]_vars
    /\ [][\A p \in Procs :
             RefusedAtFirstCheck(p) =>
                /\ err'[p] = "nil"
                /\ orchestrationNeeded' \/ ClaimedByRunningPass(p)]_vars

C26_Witness ==
    \E p \in Procs, q \in Procs :
       /\ pc[q] \in OrchPcs
       /\ pc[p] = "idle" /\ err[p] = "nil"
       /\ orchestrationNeeded /\ orchestrationRunning

\* C27: a failed pass is not retried by itself. No step of doOrchestration
\* changes the two flags, whether it fails or not; every pass, failed or
\* not, is followed by unsetOrchestrationStatus, which clears
\* orchestrationRunning and leaves orchestrationNeeded; so the running flag
\* is set only while a goroutine is between its claim and the end of its
\* unsetOrchestrationStatus, a goroutine that leaves the loop after a
\* failed pass with no request pending leaves orchestrationNeeded false,
\* and once every call has returned both flags are false.
FlagsUnchanged ==
    /\ orchestrationNeeded' = orchestrationNeeded
    /\ orchestrationRunning' = orchestrationRunning

C27_FailedPassNotRetried ==
    /\ [](orchestrationRunning => \E p \in Procs : InPass(p))
    /\ [](Quiescent => ~orchestrationNeeded /\ ~orchestrationRunning)
    /\ [][\A p \in Procs :
             /\ (pc[p] \in OrchPcs /\ pc'[p] # pc[p]) =>
                   (FlagsUnchanged /\ pc'[p] \in OrchPcs \cup {"unset"})
             /\ PassReturns(p) => FlagsUnchanged
             /\ (pc[p] = "unsetCS" /\ pc'[p] # pc[p]) =>
                   /\ ~orchestrationRunning'
                   /\ orchestrationNeeded' = orchestrationNeeded
             /\ (pc[p] = "checkCS" /\ pc'[p] # pc[p] /\ ranPass[p]
                   /\ err[p] = "error" /\ ~orchestrationNeeded) =>
                   (pc'[p] = "idle" /\ FlagsUnchanged)]_vars
    /\ (\E p \in Procs : Returned(p) /\ err[p] = "error")
          ~> ~orchestrationRunning

C27_Witness ==
    /\ Quiescent
    /\ requests = 1
    /\ \E p \in Procs : err[p] = "error"
    /\ ~orchestrationNeeded /\ ~orchestrationRunning

\* C28: c.initCompleted is false until a call of createInstance, it never
\* goes back to false, and it is set only by the step that ends the four
\* starts of a pass: the log of that pass then holds the configmap, the
\* mon start, the identity check and the mgr, osd and rbd-mirror starts,
\* all successful, and c.Info is established in that moment.
AllStartsSucceeded(log) ==
    /\ Len(log) = 7
    /\ \A i \in 1..7 :
          log[i] = [phase |-> <<"cm", "mon", "ident", "mgr", "osd", "rbd",
                                "init">>[i],
                    ok |-> TRUE]

C28_InitCompletedSound ==
    /\ [](requests = 0 => ~initCompleted)
    /\ [][initCompleted => initCompleted']_vars
    /\ [][\A p \in Procs :
             (pc[p] = "init" /\ pc'[p] # pc[p]) =>
                /\ initCompleted'
                /\ AllStartsSucceeded(passLog'[p])
                /\ IsInitialized(Info')]_vars
    /\ [][initCompleted' # initCompleted =>
             \E p \in Procs : pc[p] = "init" /\ pc'[p] = "notify"]_vars

C28_Witness ==
    /\ initCompleted
    /\ \E p \in Procs :
          /\ passLog[p] # <<>> /\ ~LastEntry(p).ok
          /\ pc[p] = "unsetCS"

====
